---- MODULE Spec2Model ----
(***************************************************************************)
(* Model of the plant-details edge function                               *)
(* (src/supabase/plant-details/index.ts): the two image aggregators       *)
(* getTreflePlantImages / getWikipediaPlantImages as operators, and the   *)
(* request handler passed to serve() as a state machine over concurrent   *)
(* requests sharing the plant_details table.                              *)
(***************************************************************************)
EXTENDS Integers, Sequences, FiniteSets, TLC

(* ------------------------------------------------------------------ *)
(* Bounds                                                             *)
(* ------------------------------------------------------------------ *)
\* number of request slots handled concurrently
NumRequests == 2
\* longest image list of one Trefle category in the aggregator inputs
MaxBucket == 2
\* longest prop=images list of the Wikipedia page in the aggregator inputs
MaxPageImages == 2
\* largest limit / perCategoryLimit argument tried on the aggregators
MaxLimit == 2
\* longest accept-language header tried
MaxHeaderLen == 4
\* longest string value of a payload field tried
MaxStrLen == 4
\* longest array value of a payload field tried
MaxItems == 6

(* ------------------------------------------------------------------ *)
(* Program constants                                                  *)
(* ------------------------------------------------------------------ *)
\* getTreflePlantImages(scientificName, 2)
TreflePerCategory == 2
\* getWikipediaPlantImages(scientificName, 5)
WikipediaLimit == 5

(* ------------------------------------------------------------------ *)
(* Values                                                             *)
(* ------------------------------------------------------------------ *)
\* JavaScript null / undefined
NULL == [t |-> "null"]
\* a promise that has not settled yet
PENDING == [t |-> "pending"]
\* a promise that rejected (an exception left the async function)
THREW == [t |-> "threw"]
\* a branch that was never launched
NOTSTARTED == [t |-> "notstarted"]

\* image URLs the providers may return
URLs == {"u1", "u2"}
\* a missing URL: null, undefined and "" are all falsy in the code's tests
NOURL == ""
\* in a provider answer: reading this part of the answer throws (fetch rejects,
\* the body is no JSON, or a property of undefined is read)
THROWS == "throw"

Truthy(url) == url # NOURL

Range(s) == {s[i] : i \in 1..Len(s)}

NoDuplicates(s) == \A i, j \in 1..Len(s) : i # j => s[i] # s[j]

\* sequences over S of length at most n
RECURSIVE SeqUpTo(_, _)
SeqUpTo(S, n) ==
  IF n = 0 THEN {<<>>}
  ELSE LET shorter == SeqUpTo(S, n - 1)
       IN shorter \cup {Append(s, x) : s \in {q \in shorter : Len(q) = n - 1}, x \in S}

\* Array.prototype.slice(0, n)
Slice(s, n) == SubSeq(s, 1, IF n < Len(s) THEN n ELSE Len(s))

(* ------------------------------------------------------------------ *)
(* getTreflePlantImages                                               *)
(* ------------------------------------------------------------------ *)
\* the fixed category order of the walk
categories == <<"leaf", "habit", "flower">>

\* a bug: count goes up for every entry, taken or not
RECURSIVE TrefleCategoryLoop_CountsEveryEntry(_, _, _, _, _, _)
TrefleCategoryLoop_CountsEveryEntry(categoryImages, i, count, st, perCategoryLimit, maxTotal) ==
  IF i > Len(categoryImages) THEN st
  ELSE LET url   == categoryImages[i]
           take  == Truthy(url) /\ url \notin st.seen
           st2   == IF take
                    THEN [collected |-> Append(st.collected, url),
                          seen |-> st.seen \cup {url}]
                    ELSE st
       IN IF count + 1 >= perCategoryLimit \/ Len(st2.collected) >= maxTotal
          THEN st2
          ELSE TrefleCategoryLoop_CountsEveryEntry(categoryImages, i + 1, count + 1, st2,
                                                   perCategoryLimit, maxTotal)

\* the inner for-loop over one category's images; st = [collected, seen],
\* count = URLs taken from this category so far
RECURSIVE TrefleCategoryLoop(_, _, _, _, _, _)
TrefleCategoryLoop(categoryImages, i, count, st, perCategoryLimit, maxTotal) ==
  IF i > Len(categoryImages) THEN st
  ELSE LET url   == categoryImages[i]
           take  == Truthy(url) /\ url \notin st.seen
           st2   == IF take
                    THEN [collected |-> Append(st.collected, url),
                          seen |-> st.seen \cup {url}]
                    ELSE st
           count2 == IF take THEN count + 1 ELSE count
       IN IF count2 >= perCategoryLimit \/ Len(st2.collected) >= maxTotal
          THEN st2
          ELSE TrefleCategoryLoop(categoryImages, i + 1, count2, st2,
                                  perCategoryLimit, maxTotal)

\* the outer for-loop over the categories, from category number c on
RECURSIVE TrefleWalk(_, _, _, _, _)
TrefleWalk(images, c, st, perCategoryLimit, maxTotal) ==
  IF c > Len(categories) THEN st
  ELSE LET st2 == TrefleCategoryLoop(images[categories[c]], 1, 0, st,
                                     perCategoryLimit, maxTotal)
       IN IF Len(st2.collected) >= maxTotal
          THEN st2
          ELSE TrefleWalk(images, c + 1, st2, perCategoryLimit, maxTotal)

\* p: what the environment and the provider answer:
\*   token  : TREFLE_API_TOKEN is set
\*   search : "throw" | "not_ok" | "empty" | "no_id" | "ok"
\*   detail : "throw" | "not_ok" | "no_images" | "ok"
\*   images : [leaf, habit, flower], each a sequence of image_url values
getTreflePlantImages(p, perCategoryLimit) ==
  IF ~p.token THEN <<>>
  ELSE IF p.search # "ok" THEN <<>>
  ELSE IF p.detail # "ok" THEN <<>>
  ELSE TrefleWalk(p.images, 1, [collected |-> <<>>, seen |-> {}],
                  perCategoryLimit, perCategoryLimit * Len(categories)).collected

(* ------------------------------------------------------------------ *)
(* getWikipediaPlantImages                                            *)
(* ------------------------------------------------------------------ *)
\* a bug: the URLs are pushed on an array instead of added to a Set
SetAdd_Push(urls, url) == Append(urls, url)

\* Set.prototype.add on a Set kept in insertion order
SetAdd(urls, url) == IF url \in Range(urls) THEN urls ELSE Append(urls, url)

\* a request sent to the provider, and how many URLs the Set held when it was sent
Fetch(call, urls) == [call |-> call, size |-> Len(urls)]

\* the for-loop over the page's images; each entry is
\*   [photo |-> the title ends in .jpg/.jpeg/.png, file |-> THROWS | NOURL | url]
\* trace: the requests sent so far; result: [urls, threw, trace]
RECURSIVE WikiImageLoop(_, _, _, _, _)
WikiImageLoop(images, i, urls, limit, trace) ==
  IF i > Len(images) THEN [urls |-> urls, threw |-> FALSE, trace |-> trace]
  ELSE LET img == images[i]
           sent == Append(trace, Fetch("imageinfo", urls))
       IN IF ~img.photo THEN WikiImageLoop(images, i + 1, urls, limit, trace)
          ELSE IF img.file = THROWS THEN [urls |-> urls, threw |-> TRUE, trace |-> sent]
          ELSE IF ~Truthy(img.file) THEN WikiImageLoop(images, i + 1, urls, limit, sent)
          ELSE LET urls2 == SetAdd(urls, img.file)
               IN IF Len(urls2) >= limit
                  THEN [urls |-> urls2, threw |-> FALSE, trace |-> sent]
                  ELSE WikiImageLoop(images, i + 1, urls2, limit, sent)

\* step 3: the Wikidata P18 lookup, run when fewer than limit URLs were found;
\* wikidata : THROWS | NOURL (no search hit, or no P18 claim) | url
WikiDataStep(urls, wikidata, limit, trace) ==
  LET sent == Append(trace, Fetch("wikidata", urls))
  IN IF Len(urls) >= limit THEN [urls |-> urls, threw |-> FALSE, trace |-> trace]
     ELSE IF wikidata = THROWS THEN [urls |-> urls, threw |-> TRUE, trace |-> sent]
     ELSE IF ~Truthy(wikidata) THEN [urls |-> urls, threw |-> FALSE, trace |-> sent]
     ELSE [urls |-> SetAdd(urls, wikidata), threw |-> FALSE, trace |-> sent]

\* p: what the provider answers:
\*   thumbnail : THROWS | NOURL | url      (prop=pageimages)
\*   list      : THROWS | "ok"             (prop=images)
\*   pageImages: the sequence of entries the list holds
\*   wikidata  : THROWS | NOURL | url      (wbsearchentities + EntityData)
\* result: [result |-> what the function returns, trace |-> the requests it sent]
WikipediaCalls(p, limit) ==
  LET t1 == <<Fetch("pageimages", <<>>)>>
  IN IF p.thumbnail = THROWS THEN [result |-> <<>>, trace |-> t1]
     ELSE LET urls1 == IF Truthy(p.thumbnail) THEN <<p.thumbnail>> ELSE <<>>
              t2 == Append(t1, Fetch("images", urls1))
          IN IF p.list = THROWS THEN [result |-> <<>>, trace |-> t2]
             ELSE LET r2 == WikiImageLoop(p.pageImages, 1, urls1, limit, t2)
                  IN IF r2.threw THEN [result |-> <<>>, trace |-> r2.trace]
                     ELSE LET r3 == WikiDataStep(r2.urls, p.wikidata, limit, r2.trace)
                          IN IF r3.threw THEN [result |-> <<>>, trace |-> r3.trace]
                             ELSE [result |-> Slice(r3.urls, limit), trace |-> r3.trace]

getWikipediaPlantImages(p, limit) == WikipediaCalls(p, limit).result

(* ------------------------------------------------------------------ *)
(* callGeminiInLanguage: from the model's text to the sheet           *)
(* ------------------------------------------------------------------ *)
\* JSON values are records tagged by t: NULL, and
UNDEFINED == [t |-> "undefined"]
JStr(chars) == [t |-> "string", chars |-> chars]
JNum(n) == [t |-> "number", n |-> n]
JBool(b) == [t |-> "boolean", b |-> b]
JObj == [t |-> "object"]
JArr(items) == [t |-> "array", items |-> items]

\* JavaScript truthiness of a value
IsTruthy(v) ==
  CASE v.t = "string"  -> v.chars # <<>>
    [] v.t = "number"  -> v.n # 0
    [] v.t = "boolean" -> v.b
    [] v.t \in {"object", "array"} -> TRUE
    [] OTHER -> FALSE

\* String.prototype.trim on a sequence of characters
RECURSIVE TrimStart(_)
TrimStart(chars) ==
  IF chars # <<>> /\ Head(chars) = " " THEN TrimStart(Tail(chars)) ELSE chars

RECURSIVE TrimEnd(_)
TrimEnd(chars) ==
  IF chars # <<>> /\ chars[Len(chars)] = " "
  THEN TrimEnd(SubSeq(chars, 1, Len(chars) - 1)) ELSE chars

Trim(chars) == TrimEnd(TrimStart(chars))

\* value.trim().startsWith('[') && value.trim().endsWith(']')
LooksLikeList(chars) ==
  LET t == Trim(chars) IN t # <<>> /\ Head(t) = "[" /\ t[Len(t)] = "]"

\* the digits of a number, consumed
RECURSIVE SkipDigits(_)
SkipDigits(chars) ==
  IF chars # <<>> /\ Head(chars) = "1" THEN SkipDigits(Tail(chars)) ELSE chars

\* JSON.parse, for texts of blanks, brackets, commas and digits: a value and what
\* follows it; ok is FALSE where JSON.parse throws
RECURSIVE JsonValue(_)
RECURSIVE JsonItems(_, _)
JsonValue(chars) ==
  LET s == TrimStart(chars)
  IN IF s = <<>> THEN [ok |-> FALSE, value |-> UNDEFINED, rest |-> <<>>]
     ELSE IF Head(s) = "1"
     THEN [ok |-> TRUE, value |-> JNum(1), rest |-> SkipDigits(s)]
     ELSE IF Head(s) = "["
     THEN LET t == TrimStart(Tail(s))
          IN IF t # <<>> /\ Head(t) = "]"
             THEN [ok |-> TRUE, value |-> JArr(<<>>), rest |-> Tail(t)]
             ELSE JsonItems(t, <<>>)
     ELSE [ok |-> FALSE, value |-> UNDEFINED, rest |-> <<>>]

\* the items of an array from an item on, items being those read so far
JsonItems(chars, items) ==
  LET v == JsonValue(chars)
      t == TrimStart(v.rest)
  IN IF ~v.ok \/ t = <<>> THEN [ok |-> FALSE, value |-> UNDEFINED, rest |-> <<>>]
     ELSE IF Head(t) = "]"
     THEN [ok |-> TRUE, value |-> JArr(Append(items, v.value)), rest |-> Tail(t)]
     ELSE IF Head(t) = ","
     THEN JsonItems(Tail(t), Append(items, v.value))
     ELSE [ok |-> FALSE, value |-> UNDEFINED, rest |-> <<>>]

\* JSON.parse(value): the whole text must be one value
JsonParse(chars) ==
  LET v == JsonValue(chars)
  IN IF v.ok /\ TrimStart(v.rest) = <<>> THEN v
     ELSE [ok |-> FALSE, value |-> UNDEFINED, rest |-> <<>>]

\* lines 399-403
expectedFields ==
  <<"common_name", "scientific_name", "easy", "exposure", "exposure_tag", "water",
    "family", "description", "watering", "care", "growth", "flowering", "resistance",
    "temperature", "multiplication", "diseases", "advice", "interest", "toxicity",
    "frequency", "origin">>

\* {}
EmptyObject == [k \in {} |-> NULL]

\* lines 384-396: the object read from the model's text; text is
\*   [shape |-> "not_string"  geminiText.match is not a function
\*            | "no_object"   the pattern {...} matches nothing
\*            | "bad_json"    JSON.parse of the match throws
\*            | "object",     JSON.parse returns
\*    parsed |-> the object it returns]
ParseGeminiText(text) ==
  IF text.shape = "object" THEN text.parsed ELSE EmptyObject

\* a bug: a field the payload lacks is left undefined (and so out of the JSON)
NormalizeField_NoDefault(key, parsedDetails) ==
  IF key \in DOMAIN parsedDetails THEN parsedDetails[key] ELSE UNDEFINED

\* a bug: a string that fails to parse as a list is dropped
NormalizeField_DropsUnparsed(key, parsedDetails) ==
  LET value == IF key \in DOMAIN parsedDetails THEN parsedDetails[key] ELSE UNDEFINED
  IN IF value.t = "string" /\ LooksLikeList(value.chars)
     THEN (IF JsonParse(value.chars).ok THEN JsonParse(value.chars).value ELSE NULL)
     ELSE IF value \in {UNDEFINED, NULL} THEN NULL
     ELSE IF key = "advice" /\ IsTruthy(value) /\ value.t # "array" THEN JArr(<<value>>)
     ELSE value

\* lines 408-420: the body of the loop over expectedFields
NormalizeField(key, parsedDetails) ==
  LET value == IF key \in DOMAIN parsedDetails THEN parsedDetails[key] ELSE UNDEFINED
      parsed == IF value.t = "string" /\ LooksLikeList(value.chars)
                   /\ JsonParse(value.chars).ok
                THEN JsonParse(value.chars).value ELSE value
      forced == IF key = "advice" /\ IsTruthy(parsed) /\ parsed.t # "array"
                THEN JArr(<<parsed>>) ELSE parsed
  IN IF forced \in {UNDEFINED, NULL} THEN NULL ELSE forced

\* lines 405-422: safeDetails
SafeDetails(parsedDetails) ==
  [key \in Range(expectedFields) |-> NormalizeField(key, parsedDetails)]

\* a bug: a text that holds no JSON object makes the generation return null
SheetOfText_NullOnBadText(text) ==
  IF text.shape = "object" THEN SafeDetails(text.parsed) ELSE NULL

\* lines 383-422: what callGeminiInLanguage returns for a non-empty text
SheetOfText(text) == SafeDetails(ParseGeminiText(text))

(* ------------------------------------------------------------------ *)
(* The plant_details table                                            *)
(* ------------------------------------------------------------------ *)
Species == {"Rosa"}
Locales == {"fr", "en"}
Requests == 1..NumRequests

\* no row for that scientific_name
NoRow == [t |-> "norow"]

\* more than one row for that scientific_name
ManyRows == [t |-> "rows"]

\* .maybeSingle(): the row, or null when there is none, when there are several, or
\* when the select fails
MaybeSingle(row, selectOk) == IF selectOk /\ row # ManyRows THEN row ELSE NoRow

\* the sheet the model returned for request r's call in language lang
Sheet(lang, r) == [t |-> "sheet", lang |-> lang, gen |-> r]

\* a column a written row does not set: result_fr / result_en are null, and a
\* missing images list is read as [] (existingDetails.images || [])
ColumnDefault(c) == IF c = "images" THEN <<>> ELSE NULL

\* .insert(insertData): a new row holding the keys of insertData
DbInsert(data) ==
  [c \in {"scientific_name", "result_fr", "result_en", "images"} |->
     IF c \in DOMAIN data THEN data[c] ELSE ColumnDefault(c)]

\* the rows of a name after a row was added to them
TableInsert(row, data) == IF row = NoRow THEN DbInsert(data) ELSE ManyRows

\* a bug: the update replaces the whole row by insertData
DbUpdate_ReplaceRow(row, data) == DbInsert(data)

\* a bug: the update empties the images column when insertData has no images
DbUpdate_ClearsImages(row, data) ==
  [c \in DOMAIN row |->
     IF c \in DOMAIN data THEN data[c] ELSE IF c = "images" THEN <<>> ELSE row[c]]

\* .update(insertData).eq('scientific_name', ...): sets the keys of insertData
DbUpdate(row, data) ==
  [c \in DOMAIN row |-> IF c \in DOMAIN data THEN data[c] ELSE row[c]]

(* ------------------------------------------------------------------ *)
(* The request handler's pure parts                                   *)
(* ------------------------------------------------------------------ *)
\* a header value as the sequence of its characters, as one string
RECURSIVE Join(_)
Join(chars) == IF chars = <<>> THEN "" ELSE Head(chars) \o Join(Tail(chars))

\* String.prototype.split(sep) on a sequence of characters
RECURSIVE SplitChars(_, _, _)
SplitChars(chars, sep, piece) ==
  IF chars = <<>> THEN <<piece>>
  ELSE IF Head(chars) = sep THEN <<piece>> \o SplitChars(Tail(chars), sep, <<>>)
  ELSE SplitChars(Tail(chars), sep, Append(piece, Head(chars)))

\* the accept-language header, [present, chars], as the list of its ','-separated
\* ranges, each the list of its '-'-separated parts (<<>>: the header is absent)
ParseAcceptLanguage(header) ==
  IF ~header.present THEN <<>>
  ELSE LET ranges == SplitChars(header.chars, ",", <<>>)
       IN [i \in 1..Len(ranges) |->
             LET parts == SplitChars(ranges[i], "-", <<>>)
             IN [j \in 1..Len(parts) |-> Join(parts[j])]]

\* a bug: the accept-language header is looked at first
ResolveLanguage_AcceptLanguageFirst(xLanguage, acceptLanguage) ==
  IF Len(acceptLanguage) > 0 /\ acceptLanguage[1][1] # "" THEN acceptLanguage[1][1]
  ELSE IF xLanguage # "" THEN xLanguage
  ELSE "fr"

\* language header values: xLanguage is the x-language header (NOURL: absent);
\* acceptLanguage is the accept-language header as the list of its ','-separated
\* ranges, each the list of its '-'-separated parts (<<>>: absent)
ResolveLanguage(xLanguage, acceptLanguage) ==
  IF xLanguage # "" THEN xLanguage
  ELSE IF Len(acceptLanguage) > 0 /\ acceptLanguage[1][1] # "" THEN acceptLanguage[1][1]
  ELSE "fr"

ResultColumn(isEnglish) == IF isEnglish THEN "result_en" ELSE "result_fr"

\* a bug: any existing row counts as a hit
CacheHit_AnyRow(existingDetails, resultColumn) == existingDetails # NoRow

\* a bug: a stored sheet whose fields are all null does not count as cached
CacheHit_NullSheetIsMiss(existingDetails, resultColumn) ==
  /\ existingDetails # NoRow
  /\ existingDetails[resultColumn] # NULL
  /\ existingDetails[resultColumn] # SafeDetails(EmptyObject)

\* existingDetails && existingDetails[resultColumn]
CacheHit(existingDetails, resultColumn) ==
  existingDetails # NoRow /\ existingDetails[resultColumn] # NULL

\* what one call of the model can do
GeminiOutcomes == {"network_error", "not_ok", "bad_body", "no_text", "json"}

\* callGeminiInLanguage(lang) of request r, given what the model call does
callGeminiInLanguage(lang, r, outcome) ==
  CASE outcome = "network_error" -> THREW
    [] outcome = "not_ok"        -> NULL
    [] outcome = "bad_body"      -> THREW
    [] outcome = "no_text"       -> NULL
    [] outcome = "json"          -> Sheet(lang, r)
    [] outcome = "garbage"       -> SheetOfText([shape |-> "bad_json", parsed |-> EmptyObject])

\* the images branch once settled
Images(urls) == [t |-> "images", urls |-> urls]

\* a bug: insertData carries every column, null ones included
InsertData_NullsIncluded(scientificName, frenchDetails, englishDetails, plantImages) ==
  [scientific_name |-> scientificName, result_fr |-> frenchDetails,
   result_en |-> englishDetails, images |-> plantImages]

\* insertData as built before the guard
InsertData(scientificName, frenchDetails, englishDetails, plantImages) ==
  LET keys == {"scientific_name"}
              \cup (IF frenchDetails # NULL THEN {"result_fr"} ELSE {})
              \cup (IF englishDetails # NULL THEN {"result_en"} ELSE {})
              \cup (IF Len(plantImages) > 0 THEN {"images"} ELSE {})
  IN [k \in keys |->
        CASE k = "scientific_name" -> scientificName
          [] k = "result_fr"       -> frenchDetails
          [] k = "result_en"       -> englishDetails
          [] k = "images"          -> plantImages]

\* a bug: the guard never fires
BothLocalesFailed_Never(frenchDetails, englishDetails) == FALSE

\* !frenchDetails && !englishDetails
BothLocalesFailed(frenchDetails, englishDetails) ==
  frenchDetails = NULL /\ englishDetails = NULL

\* isEnglish ? englishDetails : frenchDetails
RequestedDetails(isEnglish, frenchDetails, englishDetails) ==
  IF isEnglish THEN englishDetails ELSE frenchDetails

NoResponse == [status |-> 0, text |-> "", sheet |-> NULL, images |-> <<>>]

\* a text response
TextResponse(status, text) ==
  [status |-> status, text |-> text, sheet |-> NULL, images |-> <<>>]

\* a JSON response { ...sheet, images }: spreading null adds no field
JsonResponse(sheet, images) ==
  [status |-> 200, text |-> "", sheet |-> sheet, images |-> images]

KeyMissingText == "Server Error: Gemini API key not configured"

\* the handler's locals before a request arrives
IdleRequest ==
  [pc |-> "idle", scientificName |-> "", isEnglish |-> FALSE,
   geminiApiKey |-> "unread",
   frenchDetails |-> NOTSTARTED, englishDetails |-> NOTSTARTED,
   trefleImages |-> NOTSTARTED, plantImages |-> <<>>, imagesSource |-> "none",
   response |-> NoResponse, calls |-> {}, persisted |-> "none"]

Respond(l, resp) == [l EXCEPT !.pc = "done", !.response = resp]

\* a bug: the guard answers 503 only after going on to the persist step
Guard_PersistFirst(l) == [l EXCEPT !.pc = "exists"]

\* a bug: when both generations failed the three branches are started again
Guard_Retry(l) ==
  IF BothLocalesFailed(l.frenchDetails, l.englishDetails)
  THEN [l EXCEPT !.pc = "await", !.frenchDetails = PENDING, !.englishDetails = PENDING,
                 !.trefleImages = PENDING]
  ELSE [l EXCEPT !.pc = "exists"]

\* lines 443-482: build insertData, the guard, then the existence select
Guard(l) ==
  IF BothLocalesFailed(l.frenchDetails, l.englishDetails)
  THEN Respond(l, TextResponse(503, "Service Unavailable: Unable to generate plant details"))
  ELSE [l EXCEPT !.pc = "exists"]

\* a bug: the guard is tested before the fallback is asked
AfterJoin_GuardBeforeFallback(l) ==
  IF Len(l.trefleImages.urls) > 0 \/ BothLocalesFailed(l.frenchDetails, l.englishDetails)
  THEN Guard([l EXCEPT !.plantImages = l.trefleImages.urls, !.imagesSource = "trefle"])
  ELSE [l EXCEPT !.pc = "wiki", !.calls = @ \cup {"wikipedia"}]

\* lines 433-441: after the join, keep the Trefle images or ask Wikipedia
AfterJoin(l) ==
  IF Len(l.trefleImages.urls) > 0
  THEN Guard([l EXCEPT !.plantImages = l.trefleImages.urls, !.imagesSource = "trefle"])
  ELSE [l EXCEPT !.pc = "wiki", !.calls = @ \cup {"wikipedia"}]

\* a bug: a rejected branch counts as a branch that returned
PromiseAll_IgnoresRejection(l) ==
  IF PENDING \in {l.frenchDetails, l.englishDetails, l.trefleImages}
  THEN l
  ELSE IF l.trefleImages = THREW
  THEN Respond(l, TextResponse(500, "Internal Server Error"))
  ELSE AfterJoin(l)

\* Promise.all over the three branches: rejects with the first rejection,
\* fulfils once all three have fulfilled
PromiseAll(l) ==
  IF THREW \in {l.frenchDetails, l.englishDetails, l.trefleImages}
  THEN Respond(l, TextResponse(500, "Internal Server Error"))
  ELSE IF PENDING \in {l.frenchDetails, l.englishDetails, l.trefleImages}
  THEN l
  ELSE AfterJoin(l)

\* a bug: the handler is not resumed when a branch settles
Settled_NoWakeUp(l) == l

\* the handler's reaction when one of the three branches settles
Settled(l) == IF l.pc = "await" THEN PromiseAll(l) ELSE l

(* ------------------------------------------------------------------ *)
(* State                                                              *)
(* ------------------------------------------------------------------ *)
VARIABLES
  store,   \* plant_details: scientific_name -> row or NoRow
  req,     \* per request slot: the handler's locals and its response
  agg      \* one aggregator call on its own: input and result

vars == <<store, req, agg>>

NoAgg == [fn |-> "none"]

\* provider answers tried inside a request
RequestTrefleAnswers ==
  { [token |-> FALSE, search |-> "ok", detail |-> "ok",
     images |-> [leaf |-> <<"u1">>, habit |-> <<>>, flower |-> <<>>]],
    [token |-> TRUE, search |-> "not_ok", detail |-> "ok",
     images |-> [leaf |-> <<>>, habit |-> <<>>, flower |-> <<>>]],
    [token |-> TRUE, search |-> "throw", detail |-> "ok",
     images |-> [leaf |-> <<>>, habit |-> <<>>, flower |-> <<>>]],
    [token |-> TRUE, search |-> "ok", detail |-> "ok",
     images |-> [leaf |-> <<"u1", "u2">>, habit |-> <<"u2">>, flower |-> <<"u3">>]] }

RequestWikipediaAnswers ==
  { [thumbnail |-> THROWS, list |-> "ok", pageImages |-> <<>>, wikidata |-> NOURL],
    [thumbnail |-> "w1", list |-> THROWS, pageImages |-> <<>>, wikidata |-> NOURL],
    [thumbnail |-> "w1", list |-> "ok", pageImages |-> <<>>, wikidata |-> NOURL] }

Init ==
  /\ store = [sp \in Species |-> NoRow]
  /\ req = [r \in Requests |-> IdleRequest]
  /\ agg = NoAgg

(* ------------------------------------------------------------------ *)
(* The request handler's steps                                        *)
(* ------------------------------------------------------------------ *)
\* lines 186-197: an OPTIONS request is answered before anything else is done
Preflight(r) ==
  /\ req[r].pc = "idle"
  /\ req' = [req EXCEPT ![r] = Respond(@, TextResponse(204, ""))]
  /\ UNCHANGED <<store, agg>>

\* a bug: scientificName is tested only after the fan-out has been started
Receive_ValidatesAfterLaunch(r, body, xLanguage, acceptLanguage) ==
  /\ req[r].pc = "idle"
  /\ req' = [req EXCEPT ![r] =
       IF body = THROWS
       THEN Respond(@, TextResponse(500, "Internal Server Error"))
       ELSE IF body = ""
       THEN Respond([@ EXCEPT !.geminiApiKey = "set",
                              !.frenchDetails = PENDING, !.englishDetails = PENDING,
                              !.trefleImages = PENDING,
                              !.calls = {"gemini_fr", "gemini_en", "trefle"}],
                    TextResponse(400, "Bad Request: scientificName is required"))
       ELSE [@ EXCEPT !.pc = "select", !.scientificName = body,
                      !.isEnglish = (ResolveLanguage(xLanguage, acceptLanguage) = "en")]]
  /\ UNCHANGED <<store, agg>>

\* lines 224-243: read the body, reject a missing scientificName, pick the language;
\* body: THROWS (req.json() rejects) | "" (no scientificName) | a species
Receive(r, body, xLanguage, acceptLanguage) ==
  /\ req[r].pc = "idle"
  /\ req' = [req EXCEPT ![r] =
       IF body = THROWS
       THEN Respond(@, TextResponse(500, "Internal Server Error"))
       ELSE IF body = ""
       THEN Respond(@, TextResponse(400, "Bad Request: scientificName is required"))
       ELSE [@ EXCEPT !.pc = "select", !.scientificName = body,
                      !.isEnglish = (ResolveLanguage(xLanguage, acceptLanguage) = "en")]]
  /\ UNCHANGED <<store, agg>>

\* a bug: a missing key is treated as two failed generations
KeyMissing_AsFailedLocales(l) ==
  Guard([l EXCEPT !.geminiApiKey = "missing", !.frenchDetails = NULL, !.englishDetails = NULL])

\* lines 278-284: GEMINI_API is not set
KeyMissing(l) ==
  Respond([l EXCEPT !.geminiApiKey = "missing"], TextResponse(500, KeyMissingText))

\* lines 427-431: the three branches of Promise.all start
Launch(l) ==
  [l EXCEPT !.pc = "await", !.geminiApiKey = "set",
            !.frenchDetails = PENDING, !.englishDetails = PENDING,
            !.trefleImages = PENDING,
            !.calls = @ \cup {"gemini_fr", "gemini_en", "trefle"}]

\* a bug: the cached answer leaves the stored images out
HitResponse_NoImages(existingDetails, resultColumn) ==
  JsonResponse(existingDetails[resultColumn], <<>>)

\* lines 261-272: the answer served from the cached row
HitResponse(existingDetails, resultColumn) ==
  JsonResponse(existingDetails[resultColumn], existingDetails.images)

\* a bug: a cache select that returns an error fails the request
CacheCheck_FailsOnSelectError(r, selectOk, geminiApiKey) ==
  /\ req[r].pc = "select"
  /\ LET l == req[r]
         existingDetails == MaybeSingle(store[l.scientificName], selectOk)
         resultColumn == ResultColumn(l.isEnglish)
     IN req' = [req EXCEPT ![r] =
          IF ~selectOk
          THEN Respond(l, TextResponse(500, "Internal Server Error"))
          ELSE IF CacheHit(existingDetails, resultColumn)
          THEN Respond(l, HitResponse(existingDetails, resultColumn))
          ELSE IF ~geminiApiKey
          THEN KeyMissing(l)
          ELSE Launch(l)]
  /\ UNCHANGED <<store, agg>>

\* lines 245-284 and 425-431: the cache select returns; a hit is answered, a miss
\* checks the model key and launches the three branches
CacheCheck(r, selectOk, geminiApiKey) ==
  /\ req[r].pc = "select"
  /\ LET l == req[r]
         existingDetails == MaybeSingle(store[l.scientificName], selectOk)
         resultColumn == ResultColumn(l.isEnglish)
     IN req' = [req EXCEPT ![r] =
          IF CacheHit(existingDetails, resultColumn)
          THEN Respond(l, HitResponse(existingDetails, resultColumn))
          ELSE IF ~geminiApiKey
          THEN KeyMissing(l)
          ELSE Launch(l)]
  /\ UNCHANGED <<store, agg>>

\* lines 346-422: one model call returns (or throws)
GeminiSettles(r, lang, outcome) ==
  /\ IF lang = "fr" THEN req[r].frenchDetails = PENDING ELSE req[r].englishDetails = PENDING
  /\ LET v == callGeminiInLanguage(lang, r, outcome)
         l == IF lang = "fr" THEN [req[r] EXCEPT !.frenchDetails = v]
                             ELSE [req[r] EXCEPT !.englishDetails = v]
     IN req' = [req EXCEPT ![r] = Settled(l)]
  /\ UNCHANGED <<store, agg>>

\* a bug: the search fetch is outside the try, its exception rejects the branch
TrefleBranch_NoCatch(p) ==
  IF p.token /\ p.search = "throw" THEN THREW
  ELSE Images(getTreflePlantImages(p, TreflePerCategory))

\* line 430: the settled value of the branch getTreflePlantImages(scientificName, 2)
TrefleBranch(p) == Images(getTreflePlantImages(p, TreflePerCategory))

\* lines 98-175: the Trefle branch returns
TrefleSettles(r, p) ==
  /\ req[r].trefleImages = PENDING
  /\ LET l == [req[r] EXCEPT !.trefleImages = TrefleBranch(p)]
     IN req' = [req EXCEPT ![r] = Settled(l)]
  /\ UNCHANGED <<store, agg>>

\* a bug: the fallback is recorded as the source whatever it returned
WikipediaSource_Always(plantImages) == "wikipedia"

\* line 440: plantImages.length > 0 ? 'wikipedia' : 'none'
WikipediaSource(plantImages) == IF Len(plantImages) > 0 THEN "wikipedia" ELSE "none"

\* lines 439-473: the Wikipedia fallback returns, then the guard
WikipediaSettles(r, p) ==
  /\ req[r].pc = "wiki"
  /\ LET plantImages == getWikipediaPlantImages(p, WikipediaLimit)
     IN req' = [req EXCEPT ![r] =
          Guard([@ EXCEPT !.plantImages = plantImages,
                          !.imagesSource = WikipediaSource(plantImages)])]
  /\ UNCHANGED <<store, agg>>

\* a bug: the test of the select's answer is always true (the update path is taken
\* whether or not a record was found)
ExistsCheck_AlwaysUpdate(r, selectOk) ==
  /\ req[r].pc = "exists"
  /\ req' = [req EXCEPT ![r].pc = "update"]
  /\ UNCHANGED <<store, agg>>

\* lines 477-485: the existence select returns
ExistsCheck(r, selectOk) ==
  /\ req[r].pc = "exists"
  /\ LET existingRecord == MaybeSingle(store[req[r].scientificName], selectOk) # NoRow
     IN req' = [req EXCEPT ![r].pc = IF existingRecord THEN "update" ELSE "insert"]
  /\ UNCHANGED <<store, agg>>

\* a table without the unique key: no insert is refused
UniqueViolation_None(row) == FALSE

\* plant_details holds one row per scientific_name: an insert for a name that has
\* a row is refused by the table
UniqueViolation(row) == row # NoRow

\* lines 484-512: the store after the write of request locals l, and whether it was
\* written (updateError / insertError are logged, nothing else)
WriteResult(l, row, writeOk) ==
  LET data == InsertData(l.scientificName, l.frenchDetails, l.englishDetails, l.plantImages)
  IN IF l.pc = "update"
     THEN IF writeOk /\ row # NoRow
          THEN [row |-> DbUpdate(row, data), persisted |-> "written"]
          ELSE [row |-> row, persisted |-> "error"]
     ELSE IF writeOk /\ ~UniqueViolation(row)
          THEN [row |-> TableInsert(row, data), persisted |-> "written"]
          ELSE [row |-> row, persisted |-> "error"]

\* a bug: the answer falls back to the other locale's sheet
MissResponse_OtherLocale(l) ==
  JsonResponse(IF RequestedDetails(l.isEnglish, l.frenchDetails, l.englishDetails) # NULL
               THEN RequestedDetails(l.isEnglish, l.frenchDetails, l.englishDetails)
               ELSE RequestedDetails(~l.isEnglish, l.frenchDetails, l.englishDetails),
               l.plantImages)

\* lines 514-527: the 200 answer of the miss path
MissResponse(l) ==
  JsonResponse(RequestedDetails(l.isEnglish, l.frenchDetails, l.englishDetails), l.plantImages)

\* a bug: a write that returns an error is answered 500
Persist_FailsOnWriteError(r, writeOk) ==
  /\ req[r].pc \in {"update", "insert"}
  /\ LET l == req[r]
         w == WriteResult(l, store[l.scientificName], writeOk)
     IN /\ store' = [store EXCEPT ![l.scientificName] = w.row]
        /\ req' = [req EXCEPT ![r] =
             Respond([l EXCEPT !.persisted = w.persisted],
                     IF w.persisted = "error"
                     THEN TextResponse(500, "Internal Server Error")
                     ELSE MissResponse(l))]
  /\ UNCHANGED agg

\* lines 484-527: the update or insert returns, then the 200 answer
Persist(r, writeOk) ==
  /\ req[r].pc \in {"update", "insert"}
  /\ LET l == req[r]
         w == WriteResult(l, store[l.scientificName], writeOk)
     IN /\ store' = [store EXCEPT ![l.scientificName] = w.row]
        /\ req' = [req EXCEPT ![r] =
             Respond([l EXCEPT !.persisted = w.persisted], MissResponse(l))]
  /\ UNCHANGED agg

\* the slot takes the next request once nothing of the last one is pending
Recycle(r) ==
  /\ req[r].pc = "done"
  /\ PENDING \notin {req[r].frenchDetails, req[r].englishDetails, req[r].trefleImages}
  /\ req' = [req EXCEPT ![r] = IdleRequest]
  /\ UNCHANGED <<store, agg>>

XLanguageValues == {"", "en", "de"}
AcceptLanguageValues == {<<>>, <<<<"en", "US">>, <<"fr">>>>, <<<<"fr", "FR">>>>}

Next ==
  \E r \in Requests :
    \/ Preflight(r)
    \/ \E body \in {THROWS, ""} : Receive(r, body, "", <<>>)
    \/ \E body \in Species, x \in XLanguageValues, a \in AcceptLanguageValues :
         Receive(r, body, x, a)
    \/ \E selectOk, geminiApiKey \in BOOLEAN : CacheCheck(r, selectOk, geminiApiKey)
    \/ \E lang \in Locales, outcome \in GeminiOutcomes : GeminiSettles(r, lang, outcome)
    \/ \E p \in RequestTrefleAnswers : TrefleSettles(r, p)
    \/ \E p \in RequestWikipediaAnswers : WikipediaSettles(r, p)
    \/ \E selectOk \in BOOLEAN : ExistsCheck(r, selectOk)
    \/ \E writeOk \in BOOLEAN : Persist(r, writeOk)
    \/ Recycle(r)

Spec == Init /\ [][Next]_vars

(* ------------------------------------------------------------------ *)
(* The handler when every external call returns or fails               *)
(* ------------------------------------------------------------------ *)
\* the steps of request r that are the return of an external call
Returns(r) ==
  \/ \E selectOk, geminiApiKey \in BOOLEAN : CacheCheck(r, selectOk, geminiApiKey)
  \/ \E lang \in Locales, outcome \in GeminiOutcomes : GeminiSettles(r, lang, outcome)
  \/ \E p \in RequestTrefleAnswers : TrefleSettles(r, p)
  \/ \E p \in RequestWikipediaAnswers : WikipediaSettles(r, p)
  \/ \E selectOk \in BOOLEAN : ExistsCheck(r, selectOk)
  \/ \E writeOk \in BOOLEAN : Persist(r, writeOk)

\* each slot serves one request
NextLive ==
  \E r \in Requests :
    \/ Preflight(r)
    \/ \E body \in {THROWS, ""} : Receive(r, body, "", <<>>)
    \/ \E body \in Species, x \in XLanguageValues, a \in AcceptLanguageValues :
         Receive(r, body, x, a)
    \/ Returns(r)

SpecLive == Init /\ [][NextLive]_vars /\ \A r \in Requests : WF_vars(Returns(r))

(* ------------------------------------------------------------------ *)
(* Requests whose model output may be unparseable, cache reads that   *)
(* succeed                                                            *)
(* ------------------------------------------------------------------ *)
\* the model returns text that holds no JSON object, no text, or a sheet
GarbageOutcomes == {"garbage", "no_text", "json"}

NextGarbage ==
  \E r \in Requests :
    \/ \E body \in Species, x \in {"", "en"} : Receive(r, body, x, <<>>)
    \/ CacheCheck(r, TRUE, TRUE)
    \/ \E lang \in Locales, outcome \in GarbageOutcomes : GeminiSettles(r, lang, outcome)
    \/ \E p \in {q \in RequestTrefleAnswers : q.search = "ok"} : TrefleSettles(r, p)
    \/ \E p \in {q \in RequestWikipediaAnswers : q.list = "ok"} : WikipediaSettles(r, p)
    \/ ExistsCheck(r, TRUE)
    \/ \E writeOk \in BOOLEAN : Persist(r, writeOk)
    \/ Recycle(r)

SpecGarbage == Init /\ [][NextGarbage]_vars

(* ------------------------------------------------------------------ *)
(* The aggregators on their own: every provider answer within bounds  *)
(* ------------------------------------------------------------------ *)
Limits == 0..MaxLimit

Buckets == SeqUpTo(URLs \cup {NOURL}, MaxBucket)

NoTrefleImages == [leaf |-> <<>>, habit |-> <<>>, flower |-> <<>>]

\* a Trefle answer that reaches the category walk
TrefleImagesAnswer(l, h, f) ==
  [token |-> TRUE, search |-> "ok", detail |-> "ok",
   images |-> [leaf |-> l, habit |-> h, flower |-> f]]

\* the Trefle answers that end before the category walk
TrefleFailures ==
  { [token |-> FALSE, search |-> "ok", detail |-> "ok", images |-> NoTrefleImages] }
  \cup { [token |-> TRUE, search |-> s, detail |-> "ok", images |-> NoTrefleImages] :
           s \in {"throw", "not_ok", "empty", "no_id"} }
  \cup { [token |-> TRUE, search |-> "ok", detail |-> d, images |-> NoTrefleImages] :
           d \in {"throw", "not_ok", "no_images"} }

PageImageEntries ==
  { [photo |-> FALSE, file |-> NOURL] }
  \cup { [photo |-> TRUE, file |-> f] : f \in URLs \cup {NOURL, THROWS} }

PageImageLists == SeqUpTo(PageImageEntries, MaxPageImages)

WikipediaAnswer(th, list, im, wd) ==
  [thumbnail |-> th, list |-> list, pageImages |-> im, wikidata |-> wd]

AggCall(fn, p, limit) ==
  [fn |-> fn, p |-> p, limit |-> limit, returned |-> FALSE, result |-> <<>>,
   trace |-> <<>>]

InitImages ==
  /\ store = [sp \in Species |-> NoRow]
  /\ req = [r \in Requests |-> IdleRequest]
  /\ \E n \in Limits :
       \/ \E l \in Buckets, h \in Buckets, f \in Buckets :
            agg = AggCall("trefle", TrefleImagesAnswer(l, h, f), n)
       \/ \E p \in TrefleFailures : agg = AggCall("trefle", p, n)
       \/ \E th \in URLs \cup {NOURL, THROWS}, im \in PageImageLists,
             wd \in URLs \cup {NOURL, THROWS} :
            agg = AggCall("wikipedia", WikipediaAnswer(th, "ok", im, wd), n)
       \/ \E th \in URLs \cup {NOURL} :
            agg = AggCall("wikipedia", WikipediaAnswer(th, THROWS, <<>>, NOURL), n)

RunTrefle ==
  /\ agg.fn = "trefle" /\ ~agg.returned
  /\ agg' = [agg EXCEPT !.returned = TRUE,
                        !.result = getTreflePlantImages(agg.p, agg.limit)]
  /\ UNCHANGED <<store, req>>

RunWikipedia ==
  /\ agg.fn = "wikipedia" /\ ~agg.returned
  /\ agg' = [agg EXCEPT !.returned = TRUE,
                        !.result = getWikipediaPlantImages(agg.p, agg.limit),
                        !.trace = WikipediaCalls(agg.p, agg.limit).trace]
  /\ UNCHANGED <<store, req>>

NextImages == RunTrefle \/ RunWikipedia

SpecImages == InitImages /\ [][NextImages]_vars

(* ------------------------------------------------------------------ *)
(* The language of a request on its own: every header within bounds  *)
(* ------------------------------------------------------------------ *)
HeaderChars == {"e", "n", "f", ",", "-"}

\* the accept-language headers: absent, or any characters up to a length
AcceptLanguageHeaders ==
  { [present |-> FALSE, chars |-> <<>>] }
  \cup { [present |-> TRUE, chars |-> cs] : cs \in SeqUpTo(HeaderChars, MaxHeaderLen) }

\* the x-language headers ("": absent or empty)
XLanguageHeaders == {"", "en", "fr", "de", "EN"}

InitLanguage ==
  /\ store = [sp \in Species |-> NoRow]
  /\ req = [r \in Requests |-> IdleRequest]
  /\ \E x \in XLanguageHeaders, h \in AcceptLanguageHeaders :
       agg = AggCall("language", [xLanguage |-> x, acceptLanguage |-> h], 0)

\* lines 239-246: language, isEnglish, resultColumn
RunLanguage ==
  /\ agg.fn = "language" /\ ~agg.returned
  /\ LET language == ResolveLanguage(agg.p.xLanguage,
                                     ParseAcceptLanguage(agg.p.acceptLanguage))
         isEnglish == language = "en"
     IN agg' = [agg EXCEPT !.returned = TRUE,
                           !.result = [language |-> language, isEnglish |-> isEnglish,
                                       resultColumn |-> ResultColumn(isEnglish)]]
  /\ UNCHANGED <<store, req>>

NextLanguage == RunLanguage

SpecLanguage == InitLanguage /\ [][NextLanguage]_vars

(* ------------------------------------------------------------------ *)
(* The sheet on its own: every text and payload within bounds         *)
(* ------------------------------------------------------------------ *)
JsonChars == {" ", "[", "]", "1", ","}

\* the values a payload field may hold (UNDEFINED: the payload lacks the key)
RawValues ==
  {UNDEFINED, NULL, JObj, JNum(0), JNum(1), JBool(FALSE), JBool(TRUE)}
  \cup { JStr(cs) : cs \in SeqUpTo(JsonChars, MaxStrLen) }
  \cup { JArr([i \in 1..n |-> JStr(<<"1">>)]) : n \in 0..MaxItems }

\* the values tried for the fields beside the one under study
OtherValues == {UNDEFINED, NULL, JStr(<<"1">>)}

\* two expected fields and one the sheet has no place for
PayloadKeys == {"advice", "description", "extra"}

\* the object holding the keys of f that are defined
Payload(f) == [k \in {x \in DOMAIN f : f[x] # UNDEFINED} |-> f[k]]

GeminiText(shape, parsed) == [shape |-> shape, parsed |-> parsed]

InitSheet ==
  /\ store = [sp \in Species |-> NoRow]
  /\ req = [r \in Requests |-> IdleRequest]
  /\ \/ \E shape \in {"not_string", "no_object", "bad_json"} :
          agg = AggCall("sheet", GeminiText(shape, EmptyObject), 0)
     \/ \E focus \in PayloadKeys, v \in RawValues,
           others \in [PayloadKeys -> OtherValues] :
          agg = AggCall("sheet",
                        GeminiText("object", Payload([others EXCEPT ![focus] = v])), 0)

\* lines 383-422: the text is parsed and normalised
RunSheet ==
  /\ agg.fn = "sheet" /\ ~agg.returned
  /\ agg' = [agg EXCEPT !.returned = TRUE, !.result = SheetOfText(agg.p)]
  /\ UNCHANGED <<store, req>>

NextSheet == RunSheet

SpecSheet == InitSheet /\ [][NextSheet]_vars

(* ------------------------------------------------------------------ *)
(* plant-identification: record, webhook, response                    *)
(* ------------------------------------------------------------------ *)
\* what the request and the services answer:
\*   plantnetJson : the PlantNet body parsed as JSON
\*   bestResult   : plantnetJson.results[0] exists
\*   status       : plantnetRes.status
\*   user, anonymousId : the caller is signed in / sent an anonymous id
\*   image        : "none" (no originalImageBase64) | "ok" | "fail" (upload throws)
\*   insertError  : the insert into plant_identifications returned an error
\*   webhook      : "ok" | "throw" (the fetch of the Make webhook rejects)
IdentificationInputs ==
  [plantnetJson : BOOLEAN, bestResult : BOOLEAN, status : {200, 404},
   user : BOOLEAN, anonymousId : BOOLEAN, image : {"none", "ok", "fail"},
   insertError : BOOLEAN, webhook : {"ok", "throw"}]

NoIdentificationResponse == [status |-> 0, json |-> FALSE, image_url |-> "", anonymous |-> FALSE]

\* the handler's locals once the PlantNet answer has been read
IdentificationCall(p) ==
  [fn |-> "identify", p |-> p, pc |-> "parsed", imageUrl |-> "",
   inserted |-> "no", notified |-> "no", enriched |-> FALSE,
   response |-> NoIdentificationResponse]

\* lines 173-207: the image upload and the insert of the identification
InsertIdentification(l) ==
  IF l.p.plantnetJson /\ (l.p.user \/ l.p.anonymousId) /\ l.p.bestResult
  THEN LET imageUrl == IF l.p.image = "ok" THEN "stored" ELSE ""
       IN [l EXCEPT !.imageUrl = imageUrl,
                    !.inserted = IF l.p.insertError THEN "error" ELSE "ok",
                    !.pc = IF l.p.insertError THEN "enrich" ELSE "webhook"]
  ELSE [l EXCEPT !.pc = "respond"]

\* a bug: the webhook call is not guarded, its exception leaves the handler
NotifyMake_Uncaught(l) ==
  IF l.p.webhook = "throw"
  THEN [l EXCEPT !.notified = "threw", !.pc = "done",
                 !.response = [NoIdentificationResponse EXCEPT !.status = 500]]
  ELSE [l EXCEPT !.notified = "sent", !.pc = "enrich"]

\* lines 208-233: try { await fetch(makeUrl, ...) } catch { log }
NotifyMake(l) ==
  [l EXCEPT !.notified = IF l.p.webhook = "throw" THEN "threw" ELSE "sent",
            !.pc = "enrich"]

\* lines 235-240: the anonymous answer gets the image URL
EnrichAnonymous(l) ==
  [l EXCEPT !.enriched = ~l.p.user /\ l.p.plantnetJson, !.pc = "respond"]

\* lines 245-272: the modified JSON for an anonymous caller, else the PlantNet body
IdentificationResponse(l) ==
  IF l.p.plantnetJson /\ ~l.p.user
  THEN [status |-> l.p.status, json |-> TRUE,
        image_url |-> IF l.enriched THEN l.imageUrl ELSE "", anonymous |-> TRUE]
  ELSE [status |-> l.p.status, json |-> FALSE, image_url |-> "", anonymous |-> FALSE]

InitIdentification ==
  /\ store = [sp \in Species |-> NoRow]
  /\ req = [r \in Requests |-> IdleRequest]
  /\ \E p \in IdentificationInputs : agg = IdentificationCall(p)

PersistIdentification ==
  /\ agg.fn = "identify" /\ agg.pc = "parsed"
  /\ agg' = InsertIdentification(agg)
  /\ UNCHANGED <<store, req>>

Webhook ==
  /\ agg.fn = "identify" /\ agg.pc = "webhook"
  /\ agg' = NotifyMake(agg)
  /\ UNCHANGED <<store, req>>

Enrich ==
  /\ agg.fn = "identify" /\ agg.pc = "enrich"
  /\ agg' = EnrichAnonymous(agg)
  /\ UNCHANGED <<store, req>>

RespondIdentification ==
  /\ agg.fn = "identify" /\ agg.pc = "respond"
  /\ agg' = [agg EXCEPT !.pc = "done", !.response = IdentificationResponse(agg)]
  /\ UNCHANGED <<store, req>>

NextIdentification == PersistIdentification \/ Webhook \/ Enrich \/ RespondIdentification

SpecIdentification == InitIdentification /\ [][NextIdentification]_vars

(* ------------------------------------------------------------------ *)
(* Properties of the request handler (specification Spec)             *)
(* ------------------------------------------------------------------ *)
IsSheet(v) == v \notin {NULL, PENDING, THREW, NOTSTARTED}

\* the row of request r's species
RowOf(r) == store[req[r].scientificName]

OtherColumn(isEnglish) == ResultColumn(~isEnglish)

\* the cache holds the French sheet only
FrenchOnly(row) ==
  row # NoRow /\ IsSheet(row.result_fr) /\ row.result_en = NULL

\* request r was answered from the cache: 200 straight from the cache select
HitDone(r) ==
  req[r].pc = "done" /\ req[r].response.status = 200 /\ req[r].calls = {}

\* request r takes its persist step (the insert or update returns) in this step
PersistStep(r) == req[r].pc \in {"update", "insert"} /\ req'[r].pc = "done"

\* C1: every stored row has at least one of result_fr / result_en non-null, and a
\* request is at (or past) the persist step only if at least one of its two
\* generations returned a sheet.
C1_AtLeastOneLocale ==
  /\ \A sp \in Species :
       store[sp] # NoRow => IsSheet(store[sp].result_fr) \/ IsSheet(store[sp].result_en)
  /\ \A r \in Requests :
       (req[r].pc \in {"exists", "update", "insert"} \/ req[r].persisted # "none")
         => IsSheet(req[r].frenchDetails) \/ IsSheet(req[r].englishDetails)

\* a row with exactly one locale was written by a round in which the other failed
C1_Witness ==
  \E r \in Requests :
    /\ req[r].persisted = "written"
    /\ req[r].englishDetails = NULL
    /\ RowOf(r) # NoRow /\ RowOf(r).result_en = NULL /\ IsSheet(RowOf(r).result_fr)

\* C2 as stated: when the store holds "fr" and no "en", the persist step of an "en"
\* request leaves the stored "fr" sheet as it was, whatever the round produced, and
\* adds the "en" sheet the round generated (read in the claim's favour: when there
\* is one and the write succeeds).
C2_FrenchUntouched ==
  [][\A r \in Requests :
       (PersistStep(r) /\ req[r].isEnglish /\ FrenchOnly(RowOf(r)))
         => /\ store'[req[r].scientificName].result_fr = RowOf(r).result_fr
            /\ (req'[r].persisted = "written" /\ IsSheet(req[r].englishDetails))
                 => store'[req[r].scientificName].result_en = req[r].englishDetails]_vars

\* C2 amended: in that step the stored "fr" sheet stays as it was unless this
\* round's "fr" generation returned a sheet and the write succeeded, and then it is
\* replaced by that sheet; "en" is added exactly when this round's "en" generation
\* returned a sheet and the write succeeded. The "fr" column never becomes null.
C2_MergeKeepsWhatRoundLacks ==
  [][\A r \in Requests :
       (PersistStep(r) /\ req[r].isEnglish /\ FrenchOnly(RowOf(r)))
         => LET l == req[r]
                after == store'[l.scientificName]
                written == req'[r].persisted = "written"
            IN /\ after.result_fr = IF written /\ IsSheet(l.frenchDetails)
                                    THEN l.frenchDetails ELSE RowOf(r).result_fr
               /\ after.result_en = IF written /\ IsSheet(l.englishDetails)
                                    THEN l.englishDetails ELSE NULL
               /\ after.images = IF written /\ Len(l.plantImages) > 0
                                 THEN l.plantImages ELSE RowOf(r).images]_vars

\* an "en" request whose "fr" generation failed has added "en" beside the "fr" sheet
\* another round had stored
C2_Witness ==
  \E r \in Requests :
    /\ req[r].pc = "done" /\ req[r].isEnglish /\ req[r].persisted = "written"
    /\ req[r].frenchDetails = NULL
    /\ RowOf(r).result_en = req[r].englishDetails
    /\ IsSheet(RowOf(r).result_fr)

\* the cache holds "fr" and images and no "en"
ScenarioD(row) == FrenchOnly(row) /\ Len(row.images) > 0

\* C3 as stated: while the cache holds "fr" and a non-empty image list and no "en",
\* a request for "en" starts no provider operation other than the "en" generation.
C3_OnlyEnglishStarts ==
  [][\A r \in Requests :
       (req[r].isEnglish /\ req[r].pc # "idle" /\ req[r].pc # "done" /\ ScenarioD(RowOf(r)))
         => (req'[r].calls \ req[r].calls) \subseteq {"gemini_en"}]_vars

\* C3 amended: in that situation the cache select of an "en" request never hits; with
\* the model key set it starts all three branches (both generations and the Trefle
\* query), without it the request ends 500 with nothing started; and the Wikipedia
\* fallback is started only by a round whose Trefle result is empty.
C3_MissStartsAllThree ==
  [][\A r \in Requests :
       /\ (req[r].isEnglish /\ req[r].pc = "select" /\ req'[r].pc # "select"
             /\ ScenarioD(RowOf(r)))
            => \/ /\ req'[r].pc = "await"
                  /\ req'[r].calls = {"gemini_fr", "gemini_en", "trefle"}
               \/ /\ req'[r].pc = "done" /\ req'[r].geminiApiKey = "missing"
                  /\ req'[r].calls = {}
       /\ ("wikipedia" \in req'[r].calls \ req[r].calls)
            => req'[r].trefleImages = Images(<<>>)]_vars

\* an "en" request has started all three branches while the cache holds "fr" and images
C3_Witness ==
  \E r \in Requests :
    /\ req[r].isEnglish /\ req[r].pc = "await"
    /\ req[r].calls = {"gemini_fr", "gemini_en", "trefle"}
    /\ ScenarioD(RowOf(r))

\* C4: a request answered from the cache (the select returned a row whose requested
\* column is set) has called no provider and written nothing, its answer is 200 with
\* exactly the stored sheet and images, and it equals the answer of any earlier cache
\* hit for that species and locale whose served fields are still the stored ones.
C4_CacheHitIdempotent ==
  /\ [](\A r \in Requests :
          HitDone(r) => /\ req[r].persisted = "none"
                        /\ req[r].geminiApiKey = "unread"
                        /\ req[r].frenchDetails = NOTSTARTED
                        /\ req[r].englishDetails = NOTSTARTED
                        /\ req[r].trefleImages = NOTSTARTED
                        /\ IsSheet(req[r].response.sheet))
  /\ [][\A r \in Requests :
          (req[r].pc = "select" /\ req'[r].pc = "done" /\ req'[r].response.status = 200)
            => LET row == RowOf(r)
                   col == ResultColumn(req[r].isEnglish)
               IN /\ row # NoRow /\ IsSheet(row[col])
                  /\ store' = store
                  /\ req'[r].calls = {}
                  /\ req'[r].response = JsonResponse(row[col], row.images)
                  /\ \A q \in Requests \ {r} :
                       (HitDone(q) /\ req[q].isEnglish = req[r].isEnglish
                          /\ req[q].scientificName = req[r].scientificName
                          /\ req[q].response = JsonResponse(row[col], row.images))
                         => req'[r].response = req[q].response]_vars

\* two requests for the same locale have both been answered from the cache
C4_Witness ==
  \E r, q \in Requests :
    /\ r # q /\ HitDone(r) /\ HitDone(q)
    /\ req[r].isEnglish = req[q].isEnglish
    /\ req[r].response = req[q].response
    /\ Len(req[r].response.images) > 0

\* C5: a request whose two generations both returned null is, once the join and the
\* image fallback are over, answered 503 and has written nothing: it never reaches
\* the existence check or the write, whatever the image providers returned.
C5_BothFailedIs503 ==
  \A r \in Requests :
    (req[r].frenchDetails = NULL /\ req[r].englishDetails = NULL)
      => \/ req[r].pc \in {"await", "wiki"}
         \/ /\ req[r].pc = "done"
            /\ req[r].response.status = 503
            /\ req[r].persisted = "none"

\* both generations returned null, images were found, and the answer is 503 with
\* no row in the store
C5_Witness ==
  \E r \in Requests :
    /\ req[r].pc = "done" /\ req[r].response.status = 503
    /\ req[r].frenchDetails = NULL /\ req[r].englishDetails = NULL
    /\ Len(req[r].plantImages) > 0
    /\ RowOf(r) = NoRow

\* C6 as stated: a locale generation never ends in an exception (every failure of the
\* model call yields null), and a request with one failed and one successful
\* generation is answered 200 with the successful locale handed to the persist step.
C6_GenerationNeverThrows ==
  \A r \in Requests :
    /\ req[r].frenchDetails # THREW /\ req[r].englishDetails # THREW
    /\ (req[r].pc = "done"
          /\ \/ (IsSheet(req[r].frenchDetails) /\ req[r].englishDetails \in {NULL, THREW})
             \/ (IsSheet(req[r].englishDetails) /\ req[r].frenchDetails \in {NULL, THREW}))
         => (req[r].response.status = 200 /\ req[r].persisted # "none")

\* C7 as stated: a request leaves the join (goes on to the merge, or answers) only
\* when none of its three branches is still pending.
C7_JoinWaitsForAll ==
  [][\A r \in Requests :
       (req[r].pc = "await" /\ req'[r].pc # "await")
         => PENDING \notin {req'[r].frenchDetails, req'[r].englishDetails,
                            req'[r].trefleImages}]_vars

OtherLocaleOnly(l) ==
  /\ RequestedDetails(l.isEnglish, l.frenchDetails, l.englishDetails) = NULL
  /\ IsSheet(RequestedDetails(~l.isEnglish, l.frenchDetails, l.englishDetails))

\* what C9 says of the answer: a request whose round produced the other locale only
\* is never answered with an error, and its persist step answers 200 with the images
\* and no detail field
PartialIsServed ==
  /\ [](\A r \in Requests :
          OtherLocaleOnly(req[r])
            => \/ req[r].pc \in {"await", "wiki", "exists", "update", "insert"}
               \/ /\ req[r].pc = "done"
                  /\ req[r].response = JsonResponse(NULL, req[r].plantImages))
  /\ [][\A r \in Requests :
          (PersistStep(r) /\ OtherLocaleOnly(req[r]))
            => req'[r].response = JsonResponse(NULL, req[r].plantImages)]_vars

\* C9 as stated: partial success is served (200, the images, no detail field) and the
\* successful other locale is in the store after the persist step.
C9_PartialServedAndPersisted ==
  /\ PartialIsServed
  /\ [][\A r \in Requests :
          (PersistStep(r) /\ OtherLocaleOnly(req[r]))
            => store'[req[r].scientificName] # NoRow
               /\ store'[req[r].scientificName][OtherColumn(req[r].isEnglish)]
                    = RequestedDetails(~req[r].isEnglish, req[r].frenchDetails,
                                       req[r].englishDetails)]_vars

\* C9 amended: partial success is served (200, the images, no detail field); the
\* successful other locale is in the store after the persist step when the insert or
\* update succeeded, and when it failed the store is as before and the answer is 200
\* all the same.
C9_PartialServedPersistedIfWritten ==
  /\ PartialIsServed
  /\ [][\A r \in Requests :
          (PersistStep(r) /\ OtherLocaleOnly(req[r]))
            => IF req'[r].persisted = "written"
               THEN store'[req[r].scientificName][OtherColumn(req[r].isEnglish)]
                      = RequestedDetails(~req[r].isEnglish, req[r].frenchDetails,
                                         req[r].englishDetails)
               ELSE store' = store]_vars

\* a request for one locale got only the other one: answered 200 with images and no
\* detail field, the other locale stored
C9_Witness ==
  \E r \in Requests :
    /\ req[r].pc = "done" /\ OtherLocaleOnly(req[r])
    /\ req[r].response.status = 200 /\ req[r].response.sheet = NULL
    /\ Len(req[r].response.images) > 0
    /\ req[r].persisted = "written"
    /\ RowOf(r)[OtherColumn(req[r].isEnglish)]
         = RequestedDetails(~req[r].isEnglish, req[r].frenchDetails, req[r].englishDetails)

(* ------------------------------------------------------------------ *)
(* Properties of the aggregators (specification SpecImages)           *)
(* ------------------------------------------------------------------ *)
\* C10: whatever the provider answered, the sequence getTreflePlantImages returns and
\* the sequence getWikipediaPlantImages returns hold no URL twice.
C10_NoDuplicateUrls ==
  agg.fn \in {"trefle", "wikipedia"} /\ agg.returned => NoDuplicates(agg.result)

\* the same URL came up in two categories and twice in one, and is returned once
C10_Witness ==
  /\ agg.fn = "trefle" /\ agg.returned
  /\ agg.limit = 2
  /\ agg.p.images.leaf = <<"u1", "u1">>
  /\ agg.p.images.habit = <<"u1", "u2">>
  /\ agg.result = <<"u1", "u2">>

\* C11 as stated: for every limit >= 0 and every provider answer, getTreflePlantImages
\* returns at most perCategoryLimit * 3 URLs and getWikipediaPlantImages returns at
\* most limit URLs.
C11_CapInvariant ==
  agg.fn \in {"trefle", "wikipedia"} /\ agg.returned
    => Len(agg.result) <= (IF agg.fn = "trefle" THEN agg.limit * Len(categories)
                                                ELSE agg.limit)

\* C13 as stated: once the page thumbnail has been collected, a later step of
\* getWikipediaPlantImages that throws does not lose it: the thumbnail is the first URL
\* of the result (for a limit of at least one).
C13_CollectedUrlsSurvive ==
  (/\ agg.fn = "wikipedia" /\ agg.returned /\ agg.limit >= 1
   /\ agg.p.thumbnail # THROWS /\ Truthy(agg.p.thumbnail))
    => Len(agg.result) >= 1 /\ agg.result[1] = agg.p.thumbnail

(* ------------------------------------------------------------------ *)
(* Images inside a request (specification Spec)                       *)
(* ------------------------------------------------------------------ *)
\* C12: the image branch of a request never rejects: whatever the providers did,
\* the Trefle branch settles to a sequence and the request goes on after the
\* Wikipedia fallback (to the guard); a 500 answer always has another cause (the
\* body could not be read, the model key is missing, or a generation threw).
C12_ImagesNeverRaise ==
  /\ [](\A r \in Requests :
          /\ req[r].trefleImages \in {NOTSTARTED, PENDING}
               \/ req[r].trefleImages.t = "images"
          /\ (req[r].pc = "done" /\ req[r].response.status = 500)
               => \/ req[r].scientificName = ""
                  \/ req[r].geminiApiKey = "missing"
                  \/ THREW \in {req[r].frenchDetails, req[r].englishDetails})
  /\ [][\A r \in Requests :
          (req[r].pc = "wiki" /\ req'[r].pc # "wiki")
            => \/ req'[r].pc = "exists"
               \/ req'[r].pc = "done" /\ req'[r].response.status = 503]_vars

\* both providers found nothing (Trefle empty, Wikipedia asked and empty) and the
\* request was answered 200 with an empty image list
C12_Witness ==
  \E r \in Requests :
    /\ req[r].pc = "done" /\ req[r].response.status = 200
    /\ req[r].trefleImages = Images(<<>>)
    /\ "wikipedia" \in req[r].calls
    /\ req[r].response.images = <<>>

\* request r's Trefle branch has returned and r is no longer waiting at the join
PrimaryKnown(l) == l.trefleImages.t = "images" /\ l.pc # "await"

\* C14 as stated: once the primary provider has returned, the fallback provider is
\* queried if and only if the primary result is empty; and when the primary result is
\* non-empty, the images of the 200 answer and the images a successful write stores
\* are exactly the primary result.
C14_PrimaryWinsOutright ==
  /\ [](\A r \in Requests :
          PrimaryKnown(req[r])
            => /\ "wikipedia" \in req[r].calls <=> req[r].trefleImages.urls = <<>>
               /\ (req[r].pc = "done" /\ req[r].response.status = 200
                     /\ Len(req[r].trefleImages.urls) > 0)
                    => req[r].response.images = req[r].trefleImages.urls)
  /\ [][\A r \in Requests :
          (PersistStep(r) /\ Len(req[r].trefleImages.urls) > 0
             /\ req'[r].persisted = "written")
            => store'[req[r].scientificName].images = req[r].trefleImages.urls]_vars

\* C15 as stated: the fallback is run inside the image branch of the fan-out, so once
\* the join is over no image-provider call is outstanding or started: no request is
\* ever past the join and waiting for the fallback provider.
C15_NoFallbackAfterJoin ==
  \A r \in Requests : req[r].pc # "wiki"

\* request r's join fulfils in this step: it leaves the join with no branch rejected
JoinFulfils(r) ==
  /\ req[r].pc = "await" /\ req'[r].pc # "await"
  /\ THREW \notin {req'[r].frenchDetails, req'[r].englishDetails, req'[r].trefleImages}

\* C15 amended: the image branch of the fan-out is the primary provider alone; the
\* fallback provider is called by the handler, in the very step in which the join
\* fulfils, exactly when the primary result is empty. So the call comes after both
\* generations have settled, also when both returned null (the round then ends 503),
\* and no other image-provider call is started after the join.
C15_FallbackAfterJoin ==
  /\ [](\A r \in Requests :
          req[r].pc = "wiki"
            => /\ req[r].frenchDetails \notin {NOTSTARTED, PENDING, THREW}
               /\ req[r].englishDetails \notin {NOTSTARTED, PENDING, THREW}
               /\ req[r].trefleImages = Images(<<>>))
  /\ [][\A r \in Requests :
          /\ ("wikipedia" \in req'[r].calls \ req[r].calls)
               <=> (JoinFulfils(r) /\ req'[r].trefleImages = Images(<<>>))
          /\ ("trefle" \in req'[r].calls \ req[r].calls)
               => req[r].pc = "select"]_vars

\* both generations returned null, the fallback provider was asked all the same, and
\* the round ended 503
C15_Witness ==
  \E r \in Requests :
    /\ req[r].pc = "done" /\ req[r].response.status = 503
    /\ "wikipedia" \in req[r].calls

(* ------------------------------------------------------------------ *)
(* The persist step and the table (specification Spec)                *)
(* ------------------------------------------------------------------ *)
\* what the update of request locals l leaves in column c of a row that held old
UpdatedColumn(l, c, old) ==
  CASE c = "result_fr" -> IF l.frenchDetails # NULL THEN l.frenchDetails ELSE old
    [] c = "result_en" -> IF l.englishDetails # NULL THEN l.englishDetails ELSE old
    [] c = "images"    -> IF Len(l.plantImages) > 0 THEN l.plantImages ELSE old

C18_FirstInsertRace ==
  /\ [](\A r, q \in Requests :
          (r # q /\ req[r].pc = "insert" /\ req[q].pc = "insert"
             /\ req[r].scientificName = req[q].scientificName)
            => \A x \in {r, q} :
                 /\ {"gemini_fr", "gemini_en", "trefle"} \subseteq req[x].calls
                 /\ req[x].geminiApiKey = "set"
                 /\ PENDING \notin {req[x].frenchDetails, req[x].englishDetails,
                                    req[x].trefleImages}
                 /\ IsSheet(req[x].frenchDetails) \/ IsSheet(req[x].englishDetails))
  /\ [][\A r \in Requests :
          (req[r].pc = "exists" /\ req'[r].pc # "exists")
            => /\ store' = store
               /\ RowOf(r) = NoRow => req'[r].pc = "insert"]_vars

\* two requests for the same unseen species are both about to insert
C18_Witness ==
  \E r, q \in Requests :
    /\ r # q /\ req[r].scientificName = req[q].scientificName
    /\ req[r].pc = "insert" /\ req[q].pc = "insert"
    /\ RowOf(r) = NoRow

(* ------------------------------------------------------------------ *)
(* Properties of the language resolution (specification SpecLanguage) *)
(* ------------------------------------------------------------------ *)
\* the characters of a header before its first ',' or '-'
RECURSIVE FirstToken(_)
FirstToken(chars) ==
  IF chars = <<>> \/ Head(chars) \in {",", "-"} THEN ""
  ELSE Head(chars) \o FirstToken(Tail(chars))

\* the locale the claim describes: the x-language header if there is one, else the
\* first token of accept-language if there is one, else "fr"
ExpectedLanguage(xLanguage, header) ==
  IF xLanguage # "" THEN xLanguage
  ELSE IF header.present /\ FirstToken(header.chars) # "" THEN FirstToken(header.chars)
  ELSE "fr"

\* C19: the resolved language is the x-language header if present, else the first
\* token of accept-language, else "fr"; the request is English, reads and writes
\* result_en and is served the "en" sheet exactly when that value is "en", and every
\* other value reads and writes result_fr and is served the "fr" sheet.
C19_LocaleResolution ==
  (agg.fn = "language" /\ agg.returned)
    => LET expected == ExpectedLanguage(agg.p.xLanguage, agg.p.acceptLanguage)
       IN /\ agg.result.language = expected
          /\ agg.result.isEnglish <=> expected = "en"
          /\ agg.result.resultColumn = IF expected = "en" THEN "result_en" ELSE "result_fr"
          /\ RequestedDetails(agg.result.isEnglish, Sheet("fr", 1), Sheet("en", 1))
               = IF expected = "en" THEN Sheet("en", 1) ELSE Sheet("fr", 1)

\* no x-language header and accept-language "en-f": the request is English
C19_Witness ==
  /\ agg.fn = "language" /\ agg.returned
  /\ agg.p.xLanguage = ""
  /\ agg.p.acceptLanguage = [present |-> TRUE, chars |-> <<"e", "n", "-", "f">>]
  /\ agg.result.isEnglish /\ agg.result.resultColumn = "result_en"

(* ------------------------------------------------------------------ *)
(* Request validation (specification Spec)                            *)
(* ------------------------------------------------------------------ *)
\* C20: a request is answered 400 straight from reading its body: it has no
\* scientificName, has not read the cache or the model key, has started no model or
\* image call and has written nothing, and the step answering 400 leaves the store
\* as it is; no request goes on to the cache read without a scientificName.
C20_InvalidRequestIs400 ==
  /\ [](\A r \in Requests :
          /\ req[r].response.status = 400
               => /\ req[r].pc = "done" /\ req[r].scientificName = ""
                  /\ req[r].calls = {} /\ req[r].persisted = "none"
                  /\ req[r].geminiApiKey = "unread"
                  /\ req[r].frenchDetails = NOTSTARTED
                  /\ req[r].englishDetails = NOTSTARTED
                  /\ req[r].trefleImages = NOTSTARTED
          /\ req[r].pc \notin {"idle", "done"} => req[r].scientificName \in Species)
  /\ [][\A r \in Requests :
          (req'[r].response.status = 400 /\ req[r].response.status # 400)
            => req[r].pc = "idle" /\ store' = store]_vars

\* a request without scientificName was answered 400 while the cache holds a record
C20_Witness ==
  \E r \in Requests :
    /\ req[r].pc = "done" /\ req[r].response.status = 400
    /\ \E sp \in Species : store[sp] # NoRow

(* ------------------------------------------------------------------ *)
(* Responses, retries and the image source (specification Spec)       *)
(* ------------------------------------------------------------------ *)
ResponseStatuses == {200, 204, 400, 500, 503}

\* C23: a branch of the fan-out that throws is answered 500 "Internal Server
\* Error" at once; a request has a response exactly when it is done, its status is
\* one of 200, 204, 400, 500, 503 (204, 400 or 500 when it ends at its first
\* step), and the response, once given, is not replaced by what settles later.
C23_OneResponsePerRequest ==
  /\ [](\A r \in Requests :
         /\ (req[r].pc = "done") <=> (req[r].response # NoResponse)
         /\ req[r].pc = "done" => req[r].response.status \in ResponseStatuses
         /\ THREW \in {req[r].frenchDetails, req[r].englishDetails, req[r].trefleImages}
              => /\ req[r].pc = "done"
                 /\ req[r].response = TextResponse(500, "Internal Server Error"))
  /\ [][\A r \in Requests :
          /\ (req[r].pc = "idle" /\ req'[r].pc = "done")
               => req'[r].response.status \in {204, 400, 500}
          /\ req[r].pc = "done"
               => (req'[r] = IdleRequest \/ req'[r].response = req[r].response)]_vars

\* one request answered 500 for a generation that threw, its other generation
\* having returned a sheet; another answered 204
C23_Witness ==
  \E r1, r2 \in Requests :
    /\ req[r1].pc = "done" /\ req[r1].response.status = 500
    /\ req[r1].frenchDetails = THREW /\ IsSheet(req[r1].englishDetails)
    /\ req[r2].pc = "done" /\ req[r2].response.status = 204

\* C24: within a request a generation, or the primary image query, is started
\* only by the launch that follows the cache miss, and only if it was not started
\* before: once started, whatever it returned, it is not started again.
C24_NoRetry ==
  [][\A r \in Requests :
       /\ (req'[r].frenchDetails = PENDING /\ req[r].frenchDetails # PENDING)
            => (req[r].pc = "select" /\ req[r].frenchDetails = NOTSTARTED)
       /\ (req'[r].englishDetails = PENDING /\ req[r].englishDetails # PENDING)
            => (req[r].pc = "select" /\ req[r].englishDetails = NOTSTARTED)
       /\ (req'[r].trefleImages = PENDING /\ req[r].trefleImages # PENDING)
            => (req[r].pc = "select" /\ req[r].trefleImages = NOTSTARTED)
       /\ (req'[r].calls \ req[r].calls) \cap {"gemini_fr", "gemini_en", "trefle"} # {}
            => req[r].pc = "select"]_vars

\* both generations failed, the request was answered 503 and nothing is pending
C24_Witness ==
  \E r \in Requests :
    /\ req[r].pc = "done" /\ req[r].response.status = 503
    /\ req[r].frenchDetails = NULL /\ req[r].englishDetails = NULL
    /\ req[r].trefleImages # PENDING

\* the locals l are past the fallback decision
PastFallback(l) ==
  \/ l.pc \in {"exists", "update", "insert"}
  \/ l.pc = "done" /\ (l.persisted # "none" \/ l.response.status = 503)

\* C27: past the fallback decision the source is "trefle" exactly when the primary
\* result is non-empty (and the images are that result), "wikipedia" exactly when
\* the primary result is empty and the fallback result is not, "none" otherwise;
\* a write that succeeds sets the images column to the images found exactly when
\* the source is not "none", and otherwise leaves it as it was (empty in a new row).
C27_ImagesSourceAndStorage ==
  /\ [](\A r \in Requests :
         PastFallback(req[r]) =>
           /\ req[r].imagesSource =
                IF Len(req[r].trefleImages.urls) > 0 THEN "trefle"
                ELSE IF Len(req[r].plantImages) > 0 THEN "wikipedia" ELSE "none"
           /\ req[r].imagesSource = "trefle"
                => req[r].plantImages = req[r].trefleImages.urls)
  /\ [][\A r \in Requests :
          (PersistStep(r) /\ req'[r].persisted = "written" /\ RowOf(r)' # ManyRows)
            => RowOf(r)'.images =
                 IF req[r].imagesSource # "none" THEN req[r].plantImages
                 ELSE IF RowOf(r) = NoRow THEN <<>> ELSE RowOf(r).images]_vars

\* empty cache, both generations succeed, the primary provider returns 3 images
C27_Witness ==
  \E r \in Requests :
    /\ req[r].pc = "done" /\ req[r].response.status = 200
    /\ req[r].persisted = "written" /\ req[r].imagesSource = "trefle"
    /\ Len(req[r].plantImages) = 3
    /\ IsSheet(RowOf(r).result_fr) /\ IsSheet(RowOf(r).result_en)
    /\ RowOf(r).images = req[r].plantImages
    /\ req[r].response.images = req[r].plantImages

(* ------------------------------------------------------------------ *)
(* The store across requests (specification Spec)                     *)
(* ------------------------------------------------------------------ *)
\* request r's write succeeds at this step and its answer holds a sheet
ServedAndWritten(r) ==
  /\ PersistStep(r) /\ req'[r].persisted = "written"
  /\ req'[r].response.status = 200 /\ IsSheet(req'[r].response.sheet)

\* C32: right after a miss-path request has written the store and answered 200
\* with a sheet, the store answers a request for the same species and locale from
\* the cache, with the same sheet and the same images as that answer.
C32_ReadAfterWrite ==
  [][\A r \in Requests :
       ServedAndWritten(r) =>
         LET row == RowOf(r)'
             col == ResultColumn(req[r].isEnglish)
         IN /\ row # NoRow /\ row # ManyRows
            /\ IsSheet(row[col])
            /\ JsonResponse(row[col], row.images) = req'[r].response]_vars

\* C33: a stored record is never removed; a locale column that holds a sheet
\* holds a sheet after every step, and an image list that is non-empty stays
\* non-empty.
C33_StoredDataMonotone ==
  [][\A sp \in Species :
       store[sp] # NoRow =>
         /\ store'[sp] # NoRow
         /\ (store[sp] # ManyRows /\ store'[sp] # ManyRows) =>
              /\ IsSheet(store[sp].result_fr) => IsSheet(store'[sp].result_fr)
              /\ IsSheet(store[sp].result_en) => IsSheet(store'[sp].result_en)
              /\ Len(store[sp].images) > 0 => Len(store'[sp].images) > 0]_vars

\* a round that got no French sheet and no image has written, and the record
\* holds a French sheet and images
C33_Witness ==
  \E r \in Requests :
    /\ req[r].pc = "done" /\ req[r].persisted = "written"
    /\ req[r].frenchDetails = NULL /\ req[r].plantImages = <<>>
    /\ IsSheet(RowOf(r).result_fr) /\ Len(RowOf(r).images) > 0
    /\ RowOf(r).result_en = req[r].englishDetails

\* C34: a persist step whose insert or update returned an error leaves the store
\* as it was and answers 200 with this round's sheet for the requested locale and
\* this round's images.
C34_PersistFailureNotSurfaced ==
  [][\A r \in Requests :
       (PersistStep(r) /\ req'[r].persisted = "error") =>
         /\ store' = store
         /\ req'[r].response.status = 200
         /\ req'[r].response.sheet =
              (IF req[r].isEnglish THEN req[r].englishDetails ELSE req[r].frenchDetails)
         /\ req'[r].response.images = req[r].plantImages]_vars

\* the loser of a concurrent first insert: its insert was refused, the record is
\* the other request's, and it was answered 200 with its own sheet
C34_Witness ==
  \E r \in Requests :
    /\ req[r].pc = "done" /\ req[r].persisted = "error"
    /\ req[r].response.status = 200 /\ IsSheet(req[r].response.sheet)
    /\ req[r].response.sheet \in {Sheet(lang, r) : lang \in Locales}
    /\ RowOf(r) # NoRow
    /\ RowOf(r).result_fr \in {Sheet("fr", q) : q \in Requests \ {r}}

\* the locals l at the start of the miss path: the three branches pending
MissPathStarted(l) ==
  [l EXCEPT !.pc = "await", !.geminiApiKey = "set",
            !.frenchDetails = PENDING, !.englishDetails = PENDING,
            !.trefleImages = PENDING,
            !.calls = {"gemini_fr", "gemini_en", "trefle"}]

\* C36: when the cache select returns, the request is answered from the cache
\* only if the record holds the requested column; otherwise, and also when the
\* select failed although the record holds it, the request starts the miss path
\* (or is answered 500 for a missing model key) with the same locals whatever the
\* store holds, and the store is not touched.
C36_ReadFailureIsMiss ==
  [][\A r \in Requests :
       (req[r].pc = "select" /\ req'[r] # req[r]) =>
         /\ store' = store
         /\ \/ /\ RowOf(r) # NoRow
               /\ IsSheet(RowOf(r)[ResultColumn(req[r].isEnglish)])
               /\ req'[r].pc = "done" /\ req'[r].response.status = 200
            \/ req'[r] = MissPathStarted(req[r])
            \/ /\ req'[r].pc = "done"
               /\ req'[r].response = TextResponse(500, KeyMissingText)]_vars

\* a request is on the miss path although the record already held its column
\* when it arrived (the sheet was written by the request this slot served before)
C36_Witness ==
  \E r \in Requests :
    /\ req[r].pc = "await" /\ req[r].isEnglish
    /\ RowOf(r) # NoRow /\ RowOf(r).result_en = Sheet("en", r)

(* ------------------------------------------------------------------ *)
(* Termination (specification SpecLive)                               *)
(* ------------------------------------------------------------------ *)
\* the answers the fallback provider may give to a request that waits for it
FallbackAnswers ==
  { WikipediaAnswer(th, "ok", im, wd) :
      th \in {NOURL, "u1"}, im \in PageImageLists, wd \in {NOURL, "u2", THROWS} }

\* the number of requests the fallback sends: the knowledge-graph lookup is two
\* requests at most (entity search, entity data)
FallbackRequests(trace) ==
  Len(trace) + Cardinality({i \in 1..Len(trace) : trace[i].call = "wikidata"})

\* C37: every request that has been received is eventually answered; a request
\* that awaits the join has started all three branches, a request that awaits
\* the fallback has called it, and the fallback will send at most one request
\* per listed page image plus four; the answer, once given, is not replaced.
C37_Termination ==
  /\ \A r \in Requests : (req[r].pc \notin {"idle", "done"}) ~> (req[r].pc = "done")
  /\ [](\A r \in Requests :
         /\ req[r].pc = "await" =>
              NOTSTARTED \notin {req[r].frenchDetails, req[r].englishDetails,
                                 req[r].trefleImages}
         /\ req[r].pc = "wiki" =>
              /\ "wikipedia" \in req[r].calls
              /\ \A p \in FallbackAnswers :
                   FallbackRequests(WikipediaCalls(p, WikipediaLimit).trace)
                     <= Len(p.pageImages) + 4)
  /\ [][\A r \in Requests :
          req[r].pc = "done"
            => (req'[r] = IdleRequest \/ req'[r].response = req[r].response)]_vars

\* a request has been through the join, the fallback and the persist step
C37_Witness ==
  \E r \in Requests :
    /\ req[r].pc = "done" /\ req[r].response.status = 200
    /\ "wikipedia" \in req[r].calls /\ req[r].persisted = "written"

(* ------------------------------------------------------------------ *)
(* The category walk and the fallback chain (specification SpecImages) *)
(* ------------------------------------------------------------------ *)
\* the entries of s that hold a URL not in seen and not met earlier in s, in order
RECURSIVE Fresh(_, _)
Fresh(s, seen) ==
  IF s = <<>> THEN <<>>
  ELSE IF Truthy(Head(s)) /\ Head(s) \notin seen
  THEN <<Head(s)>> \o Fresh(Tail(s), seen \cup {Head(s)})
  ELSE Fresh(Tail(s), seen)

\* the first n fresh URLs of leaf, then of habit, then of flower
FirstOfEachCategory(images, n) ==
  LET l == Slice(Fresh(images.leaf, {}), n)
      h == Slice(Fresh(images.habit, Range(l)), n)
      f == Slice(Fresh(images.flower, Range(l) \cup Range(h)), n)
  IN l \o h \o f

\* a Trefle call that reached the category walk has returned
WalkReturned ==
  /\ agg.fn = "trefle" /\ agg.returned
  /\ agg.p.token /\ agg.p.search = "ok" /\ agg.p.detail = "ok"

\* C25: for perCategoryLimit >= 1 the walk returns, in the order leaf, habit,
\* flower, the first perCategoryLimit URLs of each category that were not collected
\* from an earlier position, entries without a URL being skipped.
C25_PrimaryCategoryWalk ==
  (WalkReturned /\ agg.limit >= 1)
    => agg.result = FirstOfEachCategory(agg.p.images, agg.limit)

\* leaf holds a URL twice, habit repeats leaf's URL before a new one
C25_Witness ==
  /\ WalkReturned /\ agg.limit = 1
  /\ agg.p.images.leaf = <<NOURL, "u1">>
  /\ agg.p.images.habit = <<"u1", "u2">>
  /\ agg.result = <<"u1", "u2">>

\* C26: the fallback sends its requests in the order thumbnail, page-image list,
\* file lookups, knowledge-graph lookup; a file lookup or the knowledge-graph lookup
\* is sent only while fewer than limit distinct URLs are collected.
C26_FallbackChainOrdering ==
  (agg.fn = "wikipedia" /\ agg.returned) =>
    LET trace == agg.trace
        Rank(call) == CASE call = "pageimages" -> 1 [] call = "images" -> 2
                        [] call = "imageinfo" -> 3 [] call = "wikidata" -> 4
    IN /\ Len(trace) >= 1 /\ trace[1].call = "pageimages"
       /\ \A i, j \in 1..Len(trace) : i < j =>
            /\ Rank(trace[i].call) <= Rank(trace[j].call)
            /\ trace[i].call = trace[j].call => trace[i].call = "imageinfo"
       /\ \A i \in 1..Len(trace) :
            trace[i].call \in {"imageinfo", "wikidata"} => trace[i].size < agg.limit

(* ------------------------------------------------------------------ *)
(* Properties of the sheet (specification SpecSheet)                  *)
(* ------------------------------------------------------------------ *)
\* the prompt's bound on the advice list
AdviceMax == 5

\* a sheet has been returned for a text
SheetReturned == agg.fn = "sheet" /\ agg.returned

\* the raw value of a key in the object read from the text
RawOf(key) ==
  IF key \in DOMAIN agg.p.parsed THEN agg.p.parsed[key] ELSE UNDEFINED

\* the raw value is a string that looks like a list
RawLooksLikeList(key) ==
  RawOf(key).t = "string" /\ LooksLikeList(RawOf(key).chars)

AllNullSheet == [key \in Range(expectedFields) |-> NULL]

\* C21: a returned sheet has exactly the expected fields as its keys, none of
\* them undefined; a field is null exactly when the payload lacks it or holds
\* null for it, and a field the normalisation does not touch holds the payload's
\* value; keys outside the list are dropped.
C21_FieldTotality ==
  SheetReturned =>
    /\ DOMAIN agg.result = Range(expectedFields)
    /\ \A key \in Range(expectedFields) :
         /\ agg.result[key] # UNDEFINED
         /\ (agg.result[key] = NULL) <=> (RawOf(key) \in {UNDEFINED, NULL})
         /\ (key # "advice" /\ ~RawLooksLikeList(key) /\ RawOf(key) # UNDEFINED)
              => agg.result[key] = RawOf(key)

C21_Witness ==
  /\ SheetReturned
  /\ "extra" \in DOMAIN agg.p.parsed
  /\ "description" \notin DOMAIN agg.p.parsed
  /\ RawOf("advice") = NULL
  /\ agg.result["description"] = NULL

\* C22: in a returned sheet the advice field is null or a sequence, whatever
\* the raw value was.
C22_AdviceAlwaysSequence ==
  SheetReturned => (agg.result["advice"] = NULL \/ agg.result["advice"].t = "array")

\* C28: a text from which no JSON object is read yields the sheet with every
\* expected field null.
C28_MalformedTextGivesNullSheet ==
  (SheetReturned /\ agg.p.shape # "object") => agg.result = AllNullSheet

C28_Witness ==
  SheetReturned /\ agg.p.shape = "bad_json" /\ agg.result = AllNullSheet

\* the fields whose raw value does not look like a list are normalised as usual
\* (stated for the values tried beside the field under study)
OthersAsUsual ==
  \A key \in Range(expectedFields) :
    /\ RawOf(key) \in {UNDEFINED, NULL} => agg.result[key] = NULL
    /\ RawOf(key) = JStr(<<"1">>) =>
         agg.result[key] = IF key = "advice" THEN JArr(<<RawOf(key)>>) ELSE RawOf(key)

\* C29 as claimed: a string that looks like a list is replaced by the parsed
\* list, or kept as the raw string when the parse fails.
C29_FailedParseKeepsRaw ==
  SheetReturned =>
    /\ OthersAsUsual
    /\ \A key \in Range(expectedFields) :
         RawLooksLikeList(key) =>
           agg.result[key] = IF JsonParse(RawOf(key).chars).ok
                             THEN JsonParse(RawOf(key).chars).value
                             ELSE RawOf(key)

\* C29: a string that looks like a list is replaced by the parsed list; when
\* the parse fails the raw string is kept, as the one entry of a sequence for
\* the advice field; the other fields are normalised as usual.
C29_FailedParseKeepsRawOrWraps ==
  SheetReturned =>
    /\ OthersAsUsual
    /\ \A key \in Range(expectedFields) :
         RawLooksLikeList(key) =>
           agg.result[key] =
             IF JsonParse(RawOf(key).chars).ok
             THEN JsonParse(RawOf(key).chars).value
             ELSE IF key = "advice" THEN JArr(<<RawOf(key)>>) ELSE RawOf(key)

C29_Witness ==
  /\ SheetReturned
  /\ RawOf("description") = JStr(<<"[", ",", "]">>)
  /\ agg.result["description"] = JStr(<<"[", ",", "]">>)
  /\ RawOf("advice") = JStr(<<"1">>)
  /\ agg.result["advice"] = JArr(<<JStr(<<"1">>)>>)

\* C30: in a returned sheet an advice list has at most AdviceMax entries.
C30_AdviceAtMostFive ==
  (SheetReturned /\ agg.result["advice"].t = "array")
    => Len(agg.result["advice"].items) <= AdviceMax

(* ------------------------------------------------------------------ *)
(* The all-null sheet in the handler (specification SpecGarbage)      *)
(* ------------------------------------------------------------------ *)
\* request r is done and one of its generations returned the all-null sheet
GotNullSheet(r) ==
  req[r].pc = "done" /\ AllNullSheet \in {req[r].frenchDetails, req[r].englishDetails}

\* a write that succeeds stores the all-null sheet a generation returned
NullSheetPersisted(r) ==
  (PersistStep(r) /\ req'[r].persisted = "written") =>
    /\ req[r].frenchDetails = AllNullSheet => RowOf(r)'.result_fr = AllNullSheet
    /\ req[r].englishDetails = AllNullSheet => RowOf(r)'.result_en = AllNullSheet

\* a request whose locale column holds the all-null sheet is answered from the
\* cache with that sheet, and calls no provider
NullSheetIsHit(r) ==
  (req[r].pc = "select" /\ req'[r] # req[r] /\ RowOf(r) # NoRow
     /\ RowOf(r)[ResultColumn(req[r].isEnglish)] = AllNullSheet) =>
    /\ req'[r].pc = "done"
    /\ req'[r].response = JsonResponse(AllNullSheet, RowOf(r).images)
    /\ req'[r].calls = {}

\* the name of the model call that fills column c
GeminiCall(c) == IF c = "result_fr" THEN "gemini_fr" ELSE "gemini_en"

C31_WebhookNeverChangesResponse ==
  /\ agg.notified # "no" => agg.inserted = "ok"
  /\ agg.pc = "done" =>
       LET saved == agg.p.plantnetJson /\ (agg.p.user \/ agg.p.anonymousId)
                      /\ agg.p.bestResult
           anon  == agg.p.plantnetJson /\ ~agg.p.user
       IN /\ agg.response.status = agg.p.status
          /\ agg.response.json = anon
          /\ agg.response.anonymous = anon
          /\ agg.response.image_url =
               IF anon /\ saved /\ agg.p.image = "ok" THEN "stored" ELSE ""

\* an anonymous identification was inserted, the webhook threw, the answer is
\* PlantNet's with the stored image
C31_Witness ==
  /\ agg.pc = "done" /\ agg.inserted = "ok" /\ agg.notified = "threw"
  /\ agg.response.status = 200 /\ agg.response.json
  /\ agg.response.image_url = "stored"
====
